---- MODULE Spec2Model ----
(***************************************************************************)
(* The album store (useAlbumStore) of blue-shore-ui-exam: the filter-keyed *)
(* read cache, the per-album vote gate, the application of vote and delete *)
(* responses to the visible collection, together with the remote authority *)
(* the store talks to through fetch().                                     *)
(*                                                                         *)
(* Strings whose characters matter (search text, song names, cache keys)   *)
(* are sequences of one-character strings.  A nullable value is <<>> for   *)
(* null and <<v>> for the value v.                                         *)
(***************************************************************************)
EXTENDS Integers, Sequences, FiniteSets, TLC

VARIABLES
    albums,       \* ref<Album[]>: the visible collection, in stored order
    loading,      \* ref(false)
    voteLoading,  \* ref(new Set<number>())
    error,        \* ref<string | null>
    totalPages,   \* ref(0)
    currentPage,  \* ref(1)
    searchQuery,  \* ref('')
    cache,        \* Map<string, PaginatedAlbumResponse>
    net,          \* the fetch() calls not yet settled, in the order issued;
                  \*   seq is history: the call that issued the request
    db,           \* the remote authority's albums and votes
    calls,        \* history: how many store functions have been called
    acked,        \* history: the newest authority state a vote or delete
                  \*   success applied by the store has shown
    fresh,        \* history: the filters fetched with success, with no vote,
                  \*   delete or clearCache success since
    owed,         \* history: the filters that were cached when a delete
                  \*   succeeded and that fetchAlbums was not called with since
    last,         \* history: the last step taken and what it raised
    pre           \* history: the store as it was before the last step

storeVars == <<albums, loading, voteLoading, error, totalPages, cache>>
viewVars  == <<currentPage, searchQuery>>
histVars  == <<acked, fresh, owed>>
vars == <<albums, loading, voteLoading, error, totalPages, currentPage,
          searchQuery, cache, net, db, calls, acked, fresh, owed, last, pre>>

----------------------------------------------------------------------------
(* Bounds of the model *)

\* fetch() calls that may be outstanding at once
MaxInFlight == 2
\* calls of the store's functions in one run
MaxCalls == 3
\* the largest page number a filter asks for
MaxPage == 2

\* albums in a collection handed to the ranking
MaxAlbums == 3
\* votes in the vote list of such an album
MaxVotes == 2

\* the largest page of a filter whose cache key is compared
KeyMaxPage == 12
\* the longest search text of such a filter
KeyMaxLen == 2

----------------------------------------------------------------------------
(* Values *)

Null == <<>>
Some(v) == <<v>>

\* the session user's id (auth.user.id); user 1 is somebody else
Me == 2

\* the albums the session votes on and deletes
AlbumIds == {1, 2}
\* the albums the authority holds at the start
Catalogue == {1, 2, 3}
VoteTypes == {"up", "down"}
Searches == {<<>>, <<"a">>}
Pages == 1..MaxPage
Filters == [page : Pages, search : Searches]

\* what an await in a try block may throw: an Error with its message, or a
\* value that is no Error
Error(message) == [isError |-> TRUE, message |-> message]
NotAnError == [isError |-> FALSE]

\* what fetch() rejects with when the transport fails, or response.json()
\* when the body cannot be read
Rejections == {Error("Failed to fetch"), NotAnError}

\* err instanceof Error ? err.message : fallback
MessageOf(err, fallback) == IF err.isError THEN err.message ELSE fallback

----------------------------------------------------------------------------
(* calculateVoteCounts: votes.reduce over { up: 0, down: 0 } *)

\* a variant without the branch for 'down'
RECURSIVE calculateVoteCountsUpOnly(_)
calculateVoteCountsUpOnly(votes) ==
    IF Len(votes) = 0 THEN [up |-> 0, down |-> 0]
    ELSE LET acc  == calculateVoteCountsUpOnly(SubSeq(votes, 1, Len(votes) - 1))
             vote == votes[Len(votes)]
         IN  IF vote.vote = "up" THEN [acc EXCEPT !.up = @ + 1] ELSE acc

\* votes.reduce((acc, vote) => ..., { up: 0, down: 0 })
RECURSIVE calculateVoteCounts(_)
calculateVoteCounts(votes) ==
    IF Len(votes) = 0 THEN [up |-> 0, down |-> 0]
    ELSE LET acc  == calculateVoteCounts(SubSeq(votes, 1, Len(votes) - 1))
             vote == votes[Len(votes)]
         IN  IF vote.vote = "up" THEN [acc EXCEPT !.up = @ + 1]
             ELSE IF vote.vote = "down" THEN [acc EXCEPT !.down = @ + 1]
             ELSE acc

----------------------------------------------------------------------------
(* sortedAlbums, of the store and of the view *)

\* the letters song names are written with, in the order of the collation
Letters == <<"a", "b">>

LetterRank(c) == CHOOSE r \in DOMAIN Letters : Letters[r] = c

\* a.localeCompare(b) for names written with Letters: negative, 0 or positive
RECURSIVE localeCompare(_, _)
localeCompare(a, b) ==
    IF Len(a) = 0 /\ Len(b) = 0 THEN 0
    ELSE IF Len(a) = 0 THEN -1
    ELSE IF Len(b) = 0 THEN 1
    ELSE IF LetterRank(Head(a)) < LetterRank(Head(b)) THEN -1
    ELSE IF LetterRank(Head(a)) > LetterRank(Head(b)) THEN 1
    ELSE localeCompare(Tail(a), Tail(b))

\* the store's aTotal: aVotes.up - aVotes.down
StoreTotal(a) ==
    LET aVotes == calculateVoteCounts(a.votes) IN aVotes.up - aVotes.down

\* the view's getTotalVotes(album)
getTotalVotes(album) ==
    LET counts == calculateVoteCounts(album.votes) IN counts.up - counts.down

\* a variant of the store's comparator that ranks the lower total first
StoreCompareAscending(a, b) ==
    IF StoreTotal(b) # StoreTotal(a) THEN StoreTotal(a) - StoreTotal(b)
    ELSE localeCompare(a.song_name, b.song_name)

\* the comparator of the store's sortedAlbums
StoreCompare(a, b) ==
    IF StoreTotal(b) # StoreTotal(a) THEN StoreTotal(b) - StoreTotal(a)
    ELSE localeCompare(a.song_name, b.song_name)

\* the comparator of the view's sortedAlbums
ViewCompare(a, b) ==
    IF getTotalVotes(b) # getTotalVotes(a) THEN getTotalVotes(b) - getTotalVotes(a)
    ELSE localeCompare(a.song_name, b.song_name)

\* Array.prototype.sort with the comparator cmp, given as a function on
\* pairs: the sort is stable, x goes behind the last element that is not to
\* come after it
SortInsert(sorted, x, cmp) ==
    LET notAfter == {j \in DOMAIN sorted : cmp[<<sorted[j], x>>] <= 0}
        p == IF notAfter = {} THEN 0
             ELSE CHOOSE j \in notAfter : \A k \in notAfter : k <= j
    IN  SubSeq(sorted, 1, p) \o <<x>> \o SubSeq(sorted, p + 1, Len(sorted))

RECURSIVE ArraySort(_, _)
ArraySort(as, cmp) ==
    IF Len(as) = 0 THEN <<>>
    ELSE SortInsert(ArraySort(SubSeq(as, 1, Len(as) - 1), cmp), as[Len(as)], cmp)

Elements(as) == {as[j] : j \in DOMAIN as}

\* the store's computed sortedAlbums over the collection `as`
sortedAlbums(as) ==
    ArraySort(as, [p \in Elements(as) \X Elements(as) |-> StoreCompare(p[1], p[2])])

\* the view's computed sortedAlbums over albumStore.albums
viewSortedAlbums(as) ==
    ArraySort(as, [p \in Elements(as) \X Elements(as) |-> ViewCompare(p[1], p[2])])

----------------------------------------------------------------------------
(* getCacheKey: `${filters.page}-${filters.search}` *)

DigitChars == <<"0", "1", "2", "3", "4", "5", "6", "7", "8", "9">>

RECURSIVE NumToString(_)
NumToString(n) ==
    IF n < 10 THEN <<DigitChars[n + 1]>>
    ELSE NumToString(n \div 10) \o <<DigitChars[(n % 10) + 1]>>

DigitValue(c) == CHOOSE d \in 0..9 : DigitChars[d + 1] = c

RECURSIVE StringToNum(_)
StringToNum(s) ==
    IF Len(s) = 0 THEN 0
    ELSE 10 * StringToNum(SubSeq(s, 1, Len(s) - 1)) + DigitValue(s[Len(s)])

\* a variant that leaves the search text out of the key
getCacheKeyPageOnly(filters) == NumToString(filters.page) \o <<"-">>

\* a variant without the '-' between page and search
getCacheKeyNoSeparator(filters) == NumToString(filters.page) \o filters.search

getCacheKey(filters) == NumToString(filters.page) \o <<"-">> \o filters.search

\* the store's state, as the history variable `pre` records it
Store == [albums |-> albums, loading |-> loading, voteLoading |-> voteLoading,
          error |-> error, totalPages |-> totalPages, cache |-> cache,
          net |-> net, currentPage |-> currentPage, searchQuery |-> searchQuery]

\* a Map with `key` set to `value`
MapSet(map, key, value) ==
    [k \in DOMAIN map \cup {key} |-> IF k = key THEN value ELSE map[k]]

EmptyMap == <<>>

Max(a, b) == IF a < b THEN b ELSE a

\* a sequence without its i-th element
Remove(seq, i) == [j \in 1..(Len(seq) - 1) |-> IF j < i THEN seq[j] ELSE seq[j + 1]]

----------------------------------------------------------------------------
(* The remote authority: ListEntities, CastVote, DeleteEntity.  It is      *)
(* outside the repository; the store depends on its request and response   *)
(* shapes only (PaginatedAlbumResponse, VoteResponse).                     *)

\* albums per page of a list response
PerPage == 2

SongName(id) == IF id = 1 THEN <<"a">> ELSE IF id = 2 THEN <<"b">> ELSE <<"a", "b">>

InitialVotes(id) == IF id = 1 THEN <<[user_id |-> 1, vote |-> "up"]>> ELSE <<>>

AlbumOf(d, id) == [id |-> id, song_name |-> SongName(id), votes |-> d.votes[id]]

Contains(name, search) ==
    \E i \in 1..(Len(name) + 1) :
        /\ i + Len(search) - 1 <= Len(name)
        /\ SubSeq(name, i, i + Len(search) - 1) = search

RECURSIVE SortedIds(_)
SortedIds(S) ==
    IF S = {} THEN <<>>
    ELSE LET m == CHOOSE x \in S : \A y \in S : x <= y
         IN  <<m>> \o SortedIds(S \ {m})

Matching(d, search) ==
    SortedIds({id \in d.ids : Contains(SongName(id), search)})

\* the body of a 2xx answer to GET api/albums?page=..&search=..
ListEntities(d, page, search) ==
    LET m     == Matching(d, search)
        first == (page - 1) * PerPage + 1
        stop  == IF page * PerPage < Len(m) THEN page * PerPage ELSE Len(m)
        pages == (Len(m) + PerPage - 1) \div PerPage
    IN  [current_page |-> page,
         data |-> IF first <= stop
                  THEN [j \in 1..(stop - first + 1) |-> AlbumOf(d, m[first + j - 1])]
                  ELSE <<>>,
         last_page |-> IF pages < 1 THEN 1 ELSE pages]

\* the vote list of an album after the session user has cast `voteType`:
\* a user holds at most one vote per album
CastVote(d, albumId, voteType) ==
    SelectSeq(d.votes[albumId], LAMBDA x : x.user_id # Me)
        \o <<[user_id |-> Me, vote |-> voteType]>>

\* the authority carries out the request net[i] and answers 2xx
AuthorityServe(i) ==
    /\ i \in DOMAIN net
    /\ net[i].phase = "sent"
    /\ LET r == net[i] IN
         CASE r.op = "list" ->
                /\ net' = [net EXCEPT ![i] =
                       [r EXCEPT !.phase = "answered",
                                 !.resp = [body |-> ListEntities(db, StringToNum(r.page), r.search),
                                           asOf |-> db.ver,
                                           asked |-> [page |-> StringToNum(r.page),
                                                      search |-> r.search]]]]
                /\ db' = db
           [] r.op = "vote" ->
                /\ r.albumId \in db.ids
                /\ LET vs == CastVote(db, r.albumId, r.vote) IN
                     /\ db' = [db EXCEPT !.votes[r.albumId] = vs, !.ver = @ + 1]
                     /\ net' = [net EXCEPT ![i] =
                            [r EXCEPT !.phase = "answered",
                                      !.resp = [body |-> [success |-> TRUE, votes |-> vs],
                                                asOf |-> db.ver + 1]]]
           [] r.op = "delete" ->
                /\ r.albumId \in db.ids
                /\ db' = [db EXCEPT !.ids = @ \ {r.albumId}, !.ver = @ + 1]
                /\ net' = [net EXCEPT ![i] =
                       [r EXCEPT !.phase = "answered",
                                 !.resp = [asOf |-> db.ver + 1]]]
    /\ last' = [ev |-> "authority", req |-> Null, raised |-> Null]
    /\ pre' = Store
    /\ UNCHANGED <<storeVars, viewVars, calls, histVars>>

----------------------------------------------------------------------------
(* fetchAlbums *)

\* what cache.set stores for a list response: the PaginatedAlbumResponse, and
\* as history which authority state it shows (asOf) and which query the
\* authority answered with it (asked)
CacheEntry(resp) ==
    [current_page |-> resp.body.current_page,
     data |-> resp.body.data,
     last_page |-> resp.body.last_page,
     asOf |-> resp.asOf,
     asked |-> resp.asked]

\* the PaginatedAlbumResponse of a cache entry
PageOf(entry) ==
    [current_page |-> entry.current_page, data |-> entry.data,
     last_page |-> entry.last_page]

\* a variant that never looks into the cache
FetchAlbumsNoHit(filters) ==
    /\ pre' = Store
    /\ Len(net) < MaxInFlight
    /\ loading' = TRUE
    /\ error' = Null
    /\ net' = Append(net, [op |-> "list", filters |-> filters,
                           cacheKey |-> getCacheKey(filters),
                           page |-> NumToString(filters.page),
                           search |-> filters.search,
                           phase |-> "sent", resp |-> Null,
                                   seq |-> calls + 1])
    /\ last' = [ev |-> "fetchAlbums", req |-> [filters |-> filters], raised |-> Null]
    /\ calls < MaxCalls /\ calls' = calls + 1
    /\ owed' = owed \ {filters}
    /\ UNCHANGED <<albums, voteLoading, totalPages, cache, viewVars, db, acked, fresh>>

\* the synchronous part of fetchAlbums(filters): a cache hit, or the request;
\* what it does to the store, whatever its caller does to the page and the
\* search text in the same handler
FetchAlbumsCall(filters) ==
    LET cacheKey == getCacheKey(filters) IN
    /\ pre' = Store
    /\ IF cacheKey \in DOMAIN cache
       THEN /\ albums' = cache[cacheKey].data
            /\ totalPages' = cache[cacheKey].last_page
            /\ UNCHANGED <<loading, voteLoading, error, cache, net>>
       ELSE /\ Len(net) < MaxInFlight
            /\ loading' = TRUE
            /\ error' = Null
            /\ net' = Append(net, [op |-> "list", filters |-> filters, cacheKey |-> cacheKey,
                                   page |-> NumToString(filters.page),
                                   search |-> filters.search,
                                   phase |-> "sent", resp |-> Null,
                                   seq |-> calls + 1])
            /\ UNCHANGED <<albums, voteLoading, totalPages, cache>>
    /\ last' = [ev |-> "fetchAlbums", req |-> [filters |-> filters], raised |-> Null]
    /\ calls < MaxCalls /\ calls' = calls + 1
    /\ owed' = owed \ {filters}
    /\ UNCHANGED <<db, acked, fresh>>

\* fetchAlbums(filters), called on its own
FetchAlbums(filters) ==
    /\ FetchAlbumsCall(filters)
    /\ UNCHANGED viewVars

\* a variant that keeps cacheKey in one place shared by all calls: the entry
\* goes under the key of the list request issued last
FetchAlbumsResolveSharedKey(i) ==
    /\ i \in DOMAIN net
    /\ net[i].op = "list" /\ net[i].phase = "answered"
    /\ pre' = Store
    /\ albums' = net[i].resp.body.data
    /\ totalPages' = net[i].resp.body.last_page
    /\ LET j == CHOOSE x \in DOMAIN net :
                    /\ net[x].op = "list"
                    /\ \A y \in DOMAIN net : net[y].op = "list" => y <= x
       IN  cache' = MapSet(cache, net[j].cacheKey, CacheEntry(net[i].resp))
    /\ loading' = FALSE
    /\ net' = Remove(net, i)
    /\ last' = [ev |-> "fetchOk", req |-> net[i], raised |-> Null]
    /\ fresh' = fresh \cup {net[i].filters}
    /\ UNCHANGED <<voteLoading, error, viewVars, db, calls, acked, owed>>

\* a variant that shows a response only when no list request issued later
\* is outstanding
FetchAlbumsResolveNewestOnly(i) ==
    /\ i \in DOMAIN net
    /\ net[i].op = "list" /\ net[i].phase = "answered"
    /\ pre' = Store
    /\ IF \E j \in DOMAIN net : net[j].op = "list" /\ net[j].seq > net[i].seq
       THEN UNCHANGED <<albums, totalPages>>
       ELSE /\ albums' = net[i].resp.body.data
            /\ totalPages' = net[i].resp.body.last_page
    /\ cache' = MapSet(cache, net[i].cacheKey, CacheEntry(net[i].resp))
    /\ loading' = FALSE
    /\ net' = Remove(net, i)
    /\ last' = [ev |-> "fetchOk", req |-> net[i], raised |-> Null]
    /\ fresh' = fresh \cup {net[i].filters}
    /\ UNCHANGED <<voteLoading, error, viewVars, db, calls, acked, owed>>

\* fetchAlbums after response.json(): lines 392-395, then finally
FetchAlbumsResolve(i) ==
    /\ i \in DOMAIN net
    /\ net[i].op = "list" /\ net[i].phase = "answered"
    /\ pre' = Store
    /\ albums' = net[i].resp.body.data
    /\ totalPages' = net[i].resp.body.last_page
    /\ cache' = MapSet(cache, net[i].cacheKey, CacheEntry(net[i].resp))
    /\ loading' = FALSE
    /\ net' = Remove(net, i)
    /\ last' = [ev |-> "fetchOk", req |-> net[i], raised |-> Null]
    /\ fresh' = fresh \cup {net[i].filters}
    /\ UNCHANGED <<voteLoading, error, viewVars, db, calls, acked, owed>>

\* a variant that sends the request again when it has failed
FetchAlbumsCatchRetries(i, err) ==
    /\ pre' = Store
    /\ error' = Some(MessageOf(err, "An error occurred"))
    /\ net' = [net EXCEPT ![i] = [@ EXCEPT !.phase = "sent", !.resp = Null]]
    /\ last' = [ev |-> "fetchFail", req |-> net[i], raised |-> Null]
    /\ UNCHANGED <<albums, loading, voteLoading, totalPages, cache, viewVars, db, calls,
                   histVars>>

\* a variant that empties the visible collection when the request fails
FetchAlbumsCatchEmpties(i, err) ==
    /\ pre' = Store
    /\ error' = Some(MessageOf(err, "An error occurred"))
    /\ albums' = <<>>
    /\ loading' = FALSE
    /\ net' = Remove(net, i)
    /\ last' = [ev |-> "fetchFail", req |-> net[i], raised |-> Null]
    /\ UNCHANGED <<voteLoading, totalPages, cache, viewVars, db, calls, histVars>>

\* fetchAlbums' catch and finally, entered with what was thrown
FetchAlbumsCatch(i, err) ==
    /\ pre' = Store
    /\ error' = Some(MessageOf(err, "An error occurred"))
    /\ loading' = FALSE
    /\ net' = Remove(net, i)
    /\ last' = [ev |-> "fetchFail", req |-> net[i], raised |-> Null]
    /\ UNCHANGED <<albums, voteLoading, totalPages, cache, viewVars, db, calls, histVars>>

\* the authority answers the list request with a non-2xx status and changes
\* nothing: throw new Error('Failed to fetch albums')
FetchAlbumsNotOk(i) ==
    /\ i \in DOMAIN net
    /\ net[i].op = "list" /\ net[i].phase = "sent"
    /\ FetchAlbumsCatch(i, Error("Failed to fetch albums"))

\* fetch() or response.json() of the list request rejects
FetchAlbumsTransport(i, err) ==
    /\ i \in DOMAIN net
    /\ net[i].op = "list"
    /\ FetchAlbumsCatch(i, err)

----------------------------------------------------------------------------
(* getCookie and decodeURIComponent: the XSRF-TOKEN header of a write *)

\* the printable ASCII characters, from code 32 to code 126; the grave accent
\* is kept as its code
Printable ==
    <<" ", "!", "\"", "#", "$", "%", "&", "'", "(", ")", "*", "+",
      ",", "-", ".", "/", "0", "1", "2", "3", "4", "5", "6", "7",
      "8", "9", ":", ";", "<", "=", ">", "?", "@", "A", "B", "C",
      "D", "E", "F", "G", "H", "I", "J", "K", "L", "M", "N", "O",
      "P", "Q", "R", "S", "T", "U", "V", "W", "X", "Y", "Z", "[",
      "\\", "]", "^", "_", [codePoint |-> 96], "a", "b", "c", "d", "e", "f", "g",
      "h", "i", "j", "k", "l", "m", "n", "o", "p", "q", "r", "s",
      "t", "u", "v", "w", "x", "y", "z", "{", "|", "}", "~">>

\* the character of an ASCII code; one that does not print is kept as its code
AsciiChar(b) == IF b \in 32..126 THEN Printable[b - 31] ELSE [codePoint |-> b]

HexUpper == <<"0", "1", "2", "3", "4", "5", "6", "7", "8", "9", "A", "B", "C", "D", "E", "F">>
HexLower == <<"0", "1", "2", "3", "4", "5", "6", "7", "8", "9", "a", "b", "c", "d", "e", "f">>
IsHex(c) == \E v \in 1..16 : HexUpper[v] = c \/ HexLower[v] = c
HexValue(c) == (CHOOSE v \in 1..16 : HexUpper[v] = c \/ HexLower[v] = c) - 1

\* s holds an escape %hh at position k
EscapedByte(s, k) ==
    /\ k + 2 <= Len(s)
    /\ s[k] = "%"
    /\ IsHex(s[k + 1]) /\ IsHex(s[k + 2])

\* the byte of the escape at position k
ByteAt(s, k) == 16 * HexValue(s[k + 1]) + HexValue(s[k + 2])

\* the bytes that follow the first byte b of a UTF-8 sequence; -1 when b
\* starts none
Trailing(b) ==
    IF b < 128 THEN 0
    ELSE IF b \in 194..223 THEN 1
    ELSE IF b \in 224..239 THEN 2
    ELSE IF b \in 240..244 THEN 3
    ELSE -1

\* the code point of the UTF-8 sequence of 1 + n escapes at position k
CodePoint(s, k, n) ==
    LET b == ByteAt(s, k)
        c(j) == ByteAt(s, k + 3 * j) - 128
    IN  IF n = 0 THEN b
        ELSE IF n = 1 THEN (b - 192) * 64 + c(1)
        ELSE IF n = 2 THEN (b - 224) * 4096 + c(1) * 64 + c(2)
        ELSE (b - 240) * 262144 + c(1) * 4096 + c(2) * 64 + c(3)

\* the code point is one its sequence of 1 + n bytes may encode
WellFormed(cp, n) ==
    IF n = 0 THEN TRUE
    ELSE IF n = 1 THEN cp >= 128
    ELSE IF n = 2 THEN cp >= 2048 /\ cp \notin 55296..57343
    ELSE cp \in 65536..1114111

\* what decodeURIComponent throws
URIError == Error("URI malformed")

Returned(value) == [threw |-> FALSE, value |-> value]
Thrown(err) == [threw |-> TRUE, err |-> err]

\* decodeURIComponent from position k on: a character that is not % stands
\* for itself, %hh sequences stand for the character they encode in UTF-8,
\* and anything else after a % throws
RECURSIVE DecodeFrom(_, _)
DecodeFrom(s, k) ==
    IF k > Len(s) THEN Returned(<<>>)
    ELSE IF s[k] # "%"
    THEN LET rest == DecodeFrom(s, k + 1)
         IN  IF rest.threw THEN rest ELSE Returned(<<s[k]>> \o rest.value)
    ELSE IF ~EscapedByte(s, k) THEN Thrown(URIError)
    ELSE LET n == Trailing(ByteAt(s, k)) IN
         IF n = -1 THEN Thrown(URIError)
         ELSE IF \E j \in 1..n : ~(EscapedByte(s, k + 3 * j)
                                      /\ ByteAt(s, k + 3 * j) \in 128..191)
         THEN Thrown(URIError)
         ELSE LET cp == CodePoint(s, k, n) IN
              IF ~WellFormed(cp, n) THEN Thrown(URIError)
              ELSE LET rest == DecodeFrom(s, k + 3 * (n + 1))
                   IN  IF rest.threw THEN rest
                       ELSE Returned(<<AsciiChar(cp)>> \o rest.value)

decodeURIComponent(s) == DecodeFrom(s, 1)

\* s.split(sep) for a separator that is not empty
RECURSIVE Split(_, _)
Split(s, sep) ==
    LET at(i) == i + Len(sep) - 1 <= Len(s) /\ SubSeq(s, i, i + Len(sep) - 1) = sep
    IN  IF \E i \in 1..Len(s) : at(i)
        THEN LET i == CHOOSE i \in 1..Len(s) : at(i) /\ \A h \in 1..(i - 1) : ~at(h)
             IN  <<SubSeq(s, 1, i - 1)>> \o Split(SubSeq(s, i + Len(sep), Len(s)), sep)
        ELSE <<s>>

\* getCookie(name) over the text document.cookie holds: lines 493-502
getCookie(cookie, name) ==
    LET value == <<";", " ">> \o cookie
        parts == Split(value, <<";", " ">> \o name \o <<"=">>)
    IN  IF Len(parts) = 2
        THEN LET cookieValue == Head(Split(parts[2], <<";">>))
             IN  IF cookieValue # <<>> THEN decodeURIComponent(cookieValue)
                 ELSE Returned(<<>>)
        ELSE Returned(<<>>)

XsrfToken == <<"X", "S", "R", "F", "-", "T", "O", "K", "E", "N">>

\* what document.cookie may hold when a write is called: nothing, a token
\* with an escape before another cookie, and tokens whose escapes are cut
\* short
Cookies ==
    { <<>>,
      <<"X", "S", "R", "F", "-", "T", "O", "K", "E", "N", "=", "t", "%", "3", "D", ";", " ", "a", "=", "b">>,
      <<"X", "S", "R", "F", "-", "T", "O", "K", "E", "N", "=", "%">>,
      <<"X", "S", "R", "F", "-", "T", "O", "K", "E", "N", "=", "%", "E", "0", "%", "A", "4", "%", "A">> }

\* getCookie('XSRF-TOKEN') for each of these texts, worked out once
XsrfTokenOf == [cookie \in Cookies |-> getCookie(cookie, XsrfToken)]

\* getCookie('XSRF-TOKEN') when document.cookie holds `cookie`
getXsrfToken(cookie) ==
    IF cookie \in Cookies THEN XsrfTokenOf[cookie] ELSE getCookie(cookie, XsrfToken)

----------------------------------------------------------------------------

(* voteAlbum *)

\* albums.findIndex(a => a.id === albumId): 0 stands for -1
FindIndex(as, albumId) ==
    IF \E j \in DOMAIN as : as[j].id = albumId
    THEN CHOOSE j \in DOMAIN as :
             as[j].id = albumId /\ \A k \in 1..(j - 1) : as[k].id # albumId
    ELSE 0

\* a variant that merges the returned votes into the ones held
ApplyVotesMerged(as, albumId, votes) ==
    LET albumIndex == FindIndex(as, albumId) IN
    IF albumIndex # 0
    THEN [as EXCEPT ![albumIndex] = [as[albumIndex] EXCEPT !.votes = @ \o votes]]
    ELSE as

\* a variant that gives the returned votes to every album of the collection
ApplyVotesAll(as, albumId, votes) ==
    [j \in DOMAIN as |-> [as[j] EXCEPT !.votes = votes]]

\* a variant that adds the album with the returned votes when it is not held
ApplyVotesUpsert(as, albumId, votes) ==
    LET albumIndex == FindIndex(as, albumId) IN
    IF albumIndex # 0
    THEN [as EXCEPT ![albumIndex] = [as[albumIndex] EXCEPT !.votes = votes]]
    ELSE Append(as, [id |-> albumId, song_name |-> <<>>, votes |-> votes])

\* lines 434-441: the album at albumIndex gets the returned votes
ApplyVotes(as, albumId, votes) ==
    LET albumIndex == FindIndex(as, albumId) IN
    IF albumIndex # 0
    THEN [as EXCEPT ![albumIndex] = [as[albumIndex] EXCEPT !.votes = votes]]
    ELSE as

\* a variant without the gate of lines 404-406
VoteAlbumUngated(albumId, voteType, cookie) ==
    LET token == getXsrfToken(cookie) IN
    /\ pre' = Store
    /\ IF token.threw
       THEN /\ voteLoading' = (voteLoading \cup {albumId}) \ {albumId}
            /\ error' = Some(MessageOf(token.err, "Failed to vote"))
            /\ net' = net
            /\ last' = [ev |-> "voteAlbum",
                        req |-> [albumId |-> albumId, vote |-> voteType,
                                cookie |-> cookie],
                        raised |-> error']
       ELSE /\ Len(net) < MaxInFlight
            /\ voteLoading' = voteLoading \cup {albumId}
            /\ error' = Null
            /\ net' = Append(net, [op |-> "vote", albumId |-> albumId, vote |-> voteType,
                                   phase |-> "sent", resp |-> Null,
                                   seq |-> calls + 1])
            /\ last' = [ev |-> "voteAlbum",
                        req |-> [albumId |-> albumId, vote |-> voteType,
                                cookie |-> cookie],
                        raised |-> Null]
    /\ calls < MaxCalls /\ calls' = calls + 1
    /\ UNCHANGED <<albums, loading, totalPages, cache, viewVars, db, histVars>>

\* a variant that clears the error before it looks at the gate
VoteAlbumClearsFirst(albumId, voteType, cookie) ==
    LET token == getXsrfToken(cookie) IN
    /\ pre' = Store
    /\ IF albumId \in voteLoading
       THEN /\ error' = Null
            /\ UNCHANGED <<albums, loading, voteLoading, totalPages, cache, net>>
            /\ last' = [ev |-> "voteAlbum",
                        req |-> [albumId |-> albumId, vote |-> voteType,
                                cookie |-> cookie],
                        raised |-> Null]
       ELSE IF token.threw
       THEN /\ voteLoading' = (voteLoading \cup {albumId}) \ {albumId}
            /\ error' = Some(MessageOf(token.err, "Failed to vote"))
            /\ net' = net
            /\ last' = [ev |-> "voteAlbum",
                        req |-> [albumId |-> albumId, vote |-> voteType,
                                cookie |-> cookie],
                        raised |-> error']
            /\ UNCHANGED <<albums, loading, totalPages, cache>>
       ELSE /\ Len(net) < MaxInFlight
            /\ voteLoading' = voteLoading \cup {albumId}
            /\ error' = Null
            /\ net' = Append(net, [op |-> "vote", albumId |-> albumId, vote |-> voteType,
                                   phase |-> "sent", resp |-> Null,
                                   seq |-> calls + 1])
            /\ last' = [ev |-> "voteAlbum",
                        req |-> [albumId |-> albumId, vote |-> voteType,
                                cookie |-> cookie],
                        raised |-> Null]
            /\ UNCHANGED <<albums, loading, totalPages, cache>>
    /\ calls < MaxCalls /\ calls' = calls + 1
    /\ UNCHANGED <<viewVars, db, histVars>>

\* voteAlbum(albumId, voteType) up to its first await, with `cookie` what
\* document.cookie holds: the gate of lines 404-406; then lines 408-425, where
\* the headers of the request, getCookie('XSRF-TOKEN') among them, are worked
\* out before fetch() is called.  When getCookie throws, no request is sent:
\* the catch of lines 445-447 records and throws the message and the finally
\* of lines 448-450 takes the id out of voteLoading again
VoteAlbum(albumId, voteType, cookie) ==
    LET token == getXsrfToken(cookie) IN
    /\ pre' = Store
    /\ IF albumId \in voteLoading
       THEN /\ UNCHANGED <<storeVars, net>>
            /\ last' = [ev |-> "voteAlbum",
                        req |-> [albumId |-> albumId, vote |-> voteType,
                                cookie |-> cookie],
                        raised |-> Null]
       ELSE IF token.threw
       THEN /\ voteLoading' = (voteLoading \cup {albumId}) \ {albumId}
            /\ error' = Some(MessageOf(token.err, "Failed to vote"))
            /\ net' = net
            /\ last' = [ev |-> "voteAlbum",
                        req |-> [albumId |-> albumId, vote |-> voteType,
                                cookie |-> cookie],
                        raised |-> error']
            /\ UNCHANGED <<albums, loading, totalPages, cache>>
       ELSE /\ Len(net) < MaxInFlight
            /\ voteLoading' = voteLoading \cup {albumId}
            /\ error' = Null
            /\ net' = Append(net, [op |-> "vote", albumId |-> albumId, vote |-> voteType,
                                   phase |-> "sent", resp |-> Null,
                                   seq |-> calls + 1])
            /\ last' = [ev |-> "voteAlbum",
                        req |-> [albumId |-> albumId, vote |-> voteType,
                                cookie |-> cookie],
                        raised |-> Null]
            /\ UNCHANGED <<albums, loading, totalPages, cache>>
    /\ calls < MaxCalls /\ calls' = calls + 1
    /\ UNCHANGED <<viewVars, db, histVars>>

\* a variant that clears the cache only when the album is shown
VoteAlbumResolveClearsIfShown(i) ==
    /\ i \in DOMAIN net
    /\ net[i].op = "vote" /\ net[i].phase = "answered"
    /\ pre' = Store
    /\ albums' = ApplyVotes(albums, net[i].albumId, net[i].resp.body.votes)
    /\ cache' = IF FindIndex(albums, net[i].albumId) # 0 THEN EmptyMap ELSE cache
    /\ voteLoading' = voteLoading \ {net[i].albumId}
    /\ net' = Remove(net, i)
    /\ last' = [ev |-> "voteOk", req |-> net[i], raised |-> Null]
    /\ acked' = Max(acked, net[i].resp.asOf)
    /\ fresh' = {}
    /\ UNCHANGED <<loading, error, totalPages, viewVars, db, calls, owed>>

\* voteAlbum after response.json(): lines 431-444, then finally
VoteAlbumResolve(i) ==
    /\ i \in DOMAIN net
    /\ net[i].op = "vote" /\ net[i].phase = "answered"
    /\ pre' = Store
    /\ albums' = ApplyVotes(albums, net[i].albumId, net[i].resp.body.votes)
    /\ cache' = EmptyMap
    /\ voteLoading' = voteLoading \ {net[i].albumId}
    /\ net' = Remove(net, i)
    /\ last' = [ev |-> "voteOk", req |-> net[i], raised |-> Null]
    /\ acked' = Max(acked, net[i].resp.asOf)
    /\ fresh' = {}
    /\ UNCHANGED <<loading, error, totalPages, viewVars, db, calls, owed>>

\* a variant whose finally is skipped when something else failed meanwhile
VoteAlbumCatchGuardedFinally(i, err) ==
    /\ pre' = Store
    /\ error' = Some(MessageOf(err, "Failed to vote"))
    /\ voteLoading' = IF error = Null THEN voteLoading \ {net[i].albumId} ELSE voteLoading
    /\ net' = Remove(net, i)
    /\ last' = [ev |-> "voteFail", req |-> net[i], raised |-> error']
    /\ UNCHANGED <<albums, loading, totalPages, cache, viewVars, db, calls, histVars>>

\* voteAlbum's catch and finally: the message is recorded, then thrown
VoteAlbumCatch(i, err) ==
    /\ pre' = Store
    /\ error' = Some(MessageOf(err, "Failed to vote"))
    /\ voteLoading' = voteLoading \ {net[i].albumId}
    /\ net' = Remove(net, i)
    /\ last' = [ev |-> "voteFail", req |-> net[i], raised |-> error']
    /\ UNCHANGED <<albums, loading, totalPages, cache, viewVars, db, calls, histVars>>

\* the authority answers the vote request with a non-2xx status and changes
\* nothing: throw new Error('Failed to vote')
VoteAlbumNotOk(i) ==
    /\ i \in DOMAIN net
    /\ net[i].op = "vote" /\ net[i].phase = "sent"
    /\ VoteAlbumCatch(i, Error("Failed to vote"))

\* fetch() or response.json() of the vote request rejects
VoteAlbumTransport(i, err) ==
    /\ i \in DOMAIN net
    /\ net[i].op = "vote"
    /\ VoteAlbumCatch(i, err)

----------------------------------------------------------------------------
(* deleteAlbum, updateSearch, clearCache *)

\* albums.filter(a => a.id !== albumId)
WithoutAlbum(as, albumId) == SelectSeq(as, LAMBDA a : a.id # albumId)

\* deleteAlbum(albumId) up to its await, with `cookie` what document.cookie
\* holds: lines 454-466, where getCookie('XSRF-TOKEN') is worked out before
\* fetch() is called.  When getCookie throws, no request is sent and the
\* catch of lines 477-479 records and throws the message
DeleteAlbum(albumId, cookie) ==
    LET token == getXsrfToken(cookie) IN
    /\ pre' = Store
    /\ IF token.threw
       THEN /\ error' = Some(MessageOf(token.err, "Failed to delete album"))
            /\ net' = net
            /\ last' = [ev |-> "deleteAlbum",
                        req |-> [albumId |-> albumId, cookie |-> cookie],
                        raised |-> error']
       ELSE /\ Len(net) < MaxInFlight
            /\ error' = error
            /\ net' = Append(net, [op |-> "delete", albumId |-> albumId,
                                   phase |-> "sent", resp |-> Null,
                                   seq |-> calls + 1])
            /\ last' = [ev |-> "deleteAlbum",
                        req |-> [albumId |-> albumId, cookie |-> cookie],
                        raised |-> Null]
    /\ calls < MaxCalls /\ calls' = calls + 1
    /\ UNCHANGED <<albums, loading, voteLoading, totalPages, cache, viewVars, db, histVars>>

\* deleteAlbum after a 2xx answer: lines 472-476
DeleteAlbumResolve(i) ==
    /\ i \in DOMAIN net
    /\ net[i].op = "delete" /\ net[i].phase = "answered"
    /\ pre' = Store
    /\ albums' = WithoutAlbum(albums, net[i].albumId)
    /\ cache' = EmptyMap
    /\ net' = Remove(net, i)
    /\ last' = [ev |-> "deleteOk", req |-> net[i], raised |-> Null]
    /\ acked' = Max(acked, net[i].resp.asOf)
    /\ fresh' = {}
    /\ owed' = owed \cup {f \in Filters : getCacheKey(f) \in DOMAIN cache}
    /\ UNCHANGED <<loading, voteLoading, error, totalPages, viewVars, db, calls>>

\* a variant whose catch records the message and throws nothing, as the
\* catch of fetchAlbums does
DeleteAlbumCatchSwallows(i, err) ==
    /\ pre' = Store
    /\ error' = Some(MessageOf(err, "Failed to delete album"))
    /\ net' = Remove(net, i)
    /\ last' = [ev |-> "deleteFail", req |-> net[i], raised |-> Null]
    /\ UNCHANGED <<albums, loading, voteLoading, totalPages, cache, viewVars, db, calls, histVars>>

\* deleteAlbum's catch: the message is recorded, then thrown
DeleteAlbumCatch(i, err) ==
    /\ pre' = Store
    /\ error' = Some(MessageOf(err, "Failed to delete album"))
    /\ net' = Remove(net, i)
    /\ last' = [ev |-> "deleteFail", req |-> net[i], raised |-> error']
    /\ UNCHANGED <<albums, loading, voteLoading, totalPages, cache, viewVars, db, calls, histVars>>

\* the authority answers the delete request with a non-2xx status and
\* changes nothing: throw new Error('Failed to delete album')
DeleteAlbumNotOk(i) ==
    /\ i \in DOMAIN net
    /\ net[i].op = "delete" /\ net[i].phase = "sent"
    /\ DeleteAlbumCatch(i, Error("Failed to delete album"))

\* fetch() of the delete request rejects
DeleteAlbumTransport(i, err) ==
    /\ i \in DOMAIN net
    /\ net[i].op = "delete"
    /\ DeleteAlbumCatch(i, err)

\* clearCache()
ClearCache ==
    /\ pre' = Store
    /\ cache' = EmptyMap
    /\ last' = [ev |-> "clearCache", req |-> Null, raised |-> Null]
    /\ calls < MaxCalls /\ calls' = calls + 1
    /\ fresh' = {}
    /\ UNCHANGED <<albums, loading, voteLoading, error, totalPages, net, viewVars, db, acked,
                   owed>>

\* a variant that keeps the page
UpdateSearchKeepsPage(query) ==
    /\ pre' = Store
    /\ searchQuery' = query
    /\ last' = [ev |-> "updateSearch", req |-> [query |-> query], raised |-> Null]
    /\ calls < MaxCalls /\ calls' = calls + 1
    /\ UNCHANGED <<storeVars, currentPage, net, db, histVars>>

\* updateSearch(query)
UpdateSearch(query) ==
    /\ pre' = Store
    /\ searchQuery' = query
    /\ currentPage' = 1
    /\ last' = [ev |-> "updateSearch", req |-> [query |-> query], raised |-> Null]
    /\ calls < MaxCalls /\ calls' = calls + 1
    /\ UNCHANGED <<storeVars, net, db, histVars>>

----------------------------------------------------------------------------
(* The store with its authority *)

Init ==
    /\ albums = <<>>
    /\ loading = FALSE
    /\ voteLoading = {}
    /\ error = Null
    /\ totalPages = 0
    /\ currentPage = 1
    /\ searchQuery = <<>>
    /\ cache = EmptyMap
    /\ net = <<>>
    /\ calls = 0
    /\ acked = 0
    /\ fresh = {}
    /\ owed = {}
    /\ db = [ids |-> Catalogue, votes |-> [id \in Catalogue |-> InitialVotes(id)], ver |-> 0]
    /\ last = [ev |-> "init", req |-> Null, raised |-> Null]
    /\ pre = Store

Next ==
    \/ \E f \in Filters : FetchAlbums(f)
    \/ \E id \in AlbumIds, v \in VoteTypes, c \in Cookies : VoteAlbum(id, v, c)
    \/ \E id \in AlbumIds, c \in Cookies : DeleteAlbum(id, c)
    \/ \E q \in Searches : UpdateSearch(q)
    \/ ClearCache
    \/ \E i \in 1..MaxInFlight : AuthorityServe(i)
    \/ \E i \in 1..MaxInFlight : FetchAlbumsResolve(i)
    \/ \E i \in 1..MaxInFlight : FetchAlbumsNotOk(i)
    \/ \E i \in 1..MaxInFlight, e \in Rejections : FetchAlbumsTransport(i, e)
    \/ \E i \in 1..MaxInFlight : VoteAlbumResolve(i)
    \/ \E i \in 1..MaxInFlight : VoteAlbumNotOk(i)
    \/ \E i \in 1..MaxInFlight, e \in Rejections : VoteAlbumTransport(i, e)
    \/ \E i \in 1..MaxInFlight : DeleteAlbumResolve(i)
    \/ \E i \in 1..MaxInFlight : DeleteAlbumNotOk(i)
    \/ \E i \in 1..MaxInFlight, e \in Rejections : DeleteAlbumTransport(i, e)

Spec == Init /\ [][Next]_vars

\* a vote request is settled: its promise resolves or rejects
VoteSettle(i) ==
    \/ VoteAlbumResolve(i)
    \/ VoteAlbumNotOk(i)
    \/ \E e \in Rejections : VoteAlbumTransport(i, e)

\* the store where every vote request is settled in the end
SpecLive == Spec /\ WF_vars(\E i \in 1..MaxInFlight : VoteSettle(i))

----------------------------------------------------------------------------
(* The album list view, whose handlers drive the store *)

\* loadAlbums(), as onMounted calls it
LoadAlbums ==
    /\ FetchAlbumsCall([page |-> currentPage, search |-> searchQuery])
    /\ UNCHANGED viewVars

\* debouncedSearch(value): updateSearch(value), then loadAlbums()
DebouncedSearch(value) ==
    /\ searchQuery' = value
    /\ currentPage' = 1
    /\ FetchAlbumsCall([page |-> 1, search |-> value])

\* a variant whose Previous button is never disabled
PreviousPageNeverDisabled ==
    /\ totalPages > 1
    /\ currentPage' = currentPage - 1
    /\ searchQuery' = searchQuery
    /\ FetchAlbumsCall([page |-> currentPage - 1, search |-> searchQuery])

\* a click on Previous, shown when totalPages > 1 and disabled on page 1:
\* currentPage--; loadAlbums()
PreviousPage ==
    /\ totalPages > 1
    /\ currentPage # 1
    /\ currentPage' = currentPage - 1
    /\ searchQuery' = searchQuery
    /\ FetchAlbumsCall([page |-> currentPage - 1, search |-> searchQuery])

\* a click on Next, shown when totalPages > 1 and disabled on the last page:
\* currentPage++; loadAlbums()
NextPage ==
    /\ totalPages > 1
    /\ currentPage # totalPages
    /\ currentPage + 1 \in Pages
    /\ currentPage' = currentPage + 1
    /\ searchQuery' = searchQuery
    /\ FetchAlbumsCall([page |-> currentPage + 1, search |-> searchQuery])

NextView ==
    \/ Next
    \/ LoadAlbums
    \/ \E q \in Searches : DebouncedSearch(q)
    \/ PreviousPage
    \/ NextPage

\* the store driven by its own functions and by the view's handlers
SpecView == Init /\ [][NextView]_vars

----------------------------------------------------------------------------
(* The ranking and the tally over any collection: the computed properties  *)
(* are read over whatever albums holds                                     *)

SongNames == {<<"a">>, <<"b">>, <<"a", "b">>}

\* the vote lists of up to MaxVotes votes, the k-th cast by user k
VoteLists ==
    UNION {{[k \in 1..n |-> [user_id |-> k, vote |-> g[k]]] : g \in [1..n -> VoteTypes]} :
           n \in 0..MaxVotes}

\* the collection of n albums, the j-th with id j and the name and votes f[j]
Collection(n, f) ==
    [j \in 1..n |-> [id |-> j, song_name |-> f[j].song_name, votes |-> f[j].votes]]

InitRank ==
    /\ \E n \in 0..MaxAlbums :
           \E f \in [1..n -> [song_name : SongNames, votes : VoteLists]] :
               albums = Collection(n, f)
    /\ loading = FALSE
    /\ voteLoading = {}
    /\ error = Null
    /\ totalPages = 0
    /\ currentPage = 1
    /\ searchQuery = <<>>
    /\ cache = EmptyMap
    /\ net = <<>>
    /\ calls = 0
    /\ acked = 0
    /\ fresh = {}
    /\ owed = {}
    /\ db = [ids |-> Catalogue, votes |-> [id \in Catalogue |-> InitialVotes(id)], ver |-> 0]
    /\ last = [ev |-> "init", req |-> Null, raised |-> Null]
    /\ pre = Store

\* the store's sortedAlbums is read
ReadSortedAlbums ==
    /\ last' = [ev |-> "sortedAlbums", req |-> Null, raised |-> Null,
                 out |-> sortedAlbums(albums)]
    /\ UNCHANGED <<storeVars, viewVars, net, db, calls, histVars, pre>>

\* the view's sortedAlbums is read
ReadViewSortedAlbums ==
    /\ last' = [ev |-> "viewSortedAlbums", req |-> Null, raised |-> Null,
                 out |-> viewSortedAlbums(albums)]
    /\ UNCHANGED <<storeVars, viewVars, net, db, calls, histVars, pre>>

\* the votes of the j-th album are tallied: by calculateVoteCounts, by the
\* store's comparator and by the view's getTotalVotes
ReadVoteCounts(j) ==
    /\ j \in DOMAIN albums
    /\ last' = [ev |-> "calculateVoteCounts", req |-> albums[j], raised |-> Null,
                 out |-> calculateVoteCounts(albums[j].votes),
                 aTotal |-> StoreTotal(albums[j]),
                 total |-> getTotalVotes(albums[j])]
    /\ UNCHANGED <<storeVars, viewVars, net, db, calls, histVars, pre>>

NextRank ==
    \/ ReadSortedAlbums
    \/ ReadViewSortedAlbums
    \/ \E j \in 1..MaxAlbums : ReadVoteCounts(j)

SpecRank == InitRank /\ [][NextRank]_vars

----------------------------------------------------------------------------
(* getCacheKey over any two filters *)

\* the characters of the search texts: the separator, a digit, a letter in
\* both cases, a blank
KeyChars == {"-", "1", "a", "A", " "}

KeySearches == UNION {[1..n -> KeyChars] : n \in 0..KeyMaxLen}

KeyFilters == [page : 1..KeyMaxPage, search : KeySearches]

InitKey ==
    /\ albums = <<>>
    /\ loading = FALSE
    /\ voteLoading = {}
    /\ error = Null
    /\ totalPages = 0
    /\ currentPage = 1
    /\ searchQuery = <<>>
    /\ cache = EmptyMap
    /\ net = <<>>
    /\ calls = 0
    /\ acked = 0
    /\ fresh = {}
    /\ owed = {}
    /\ db = [ids |-> Catalogue, votes |-> [id \in Catalogue |-> InitialVotes(id)], ver |-> 0]
    /\ \E f1 \in KeyFilters, f2 \in KeyFilters :
           last = [ev |-> "filters", req |-> <<f1, f2>>, raised |-> Null]
    /\ pre = Store

\* getCacheKey is called with each of the two filters
ReadCacheKeys ==
    /\ last.ev = "filters"
    /\ last' = [ev |-> "getCacheKey", req |-> last.req, raised |-> Null,
                 out |-> <<getCacheKey(last.req[1]), getCacheKey(last.req[2])>>]
    /\ UNCHANGED <<storeVars, viewVars, net, db, calls, histVars, pre>>

NextKey == ReadCacheKeys

SpecKey == InitKey /\ [][NextKey]_vars

----------------------------------------------------------------------------
(* The router's navigation guard *)

\* the paths of the route table, and one that matches no route
RoutePaths == {"/", "/about", "/albums", "/login", "/register"}
Paths == RoutePaths \cup {"/nowhere"}

\* to.meta.requiresAuth, from the route table
RequiresAuth(path) == path \in {"/", "/about", "/albums"}

\* the values of auth.token: null, the empty string, a token
Tokens == {Null, Some(""), Some("t")}

\* isAuthenticated: !!token.value
isAuthenticated(token) == token # Null /\ token[1] # ""

\* what the guard hands to next(): a path to redirect to, or nothing
Redirect(path) == [redirect |-> TRUE, path |-> path]
Proceed == [redirect |-> FALSE]

\* a variant that sends a session with a token away from '/login' only
beforeEachLoginOnly(to, from, token) ==
    IF RequiresAuth(to) /\ ~isAuthenticated(token) THEN Redirect("/login")
    ELSE IF to = "/login" /\ isAuthenticated(token) THEN Redirect("/")
    ELSE Proceed

\* router.beforeEach((to, from, next) => ...)
beforeEach(to, from, token) ==
    IF RequiresAuth(to) /\ ~isAuthenticated(token) THEN Redirect("/login")
    ELSE IF (to = "/login" \/ to = "/register") /\ isAuthenticated(token) THEN Redirect("/")
    ELSE Proceed

InitGuard ==
    /\ albums = <<>>
    /\ loading = FALSE
    /\ voteLoading = {}
    /\ error = Null
    /\ totalPages = 0
    /\ currentPage = 1
    /\ searchQuery = <<>>
    /\ cache = EmptyMap
    /\ net = <<>>
    /\ calls = 0
    /\ acked = 0
    /\ fresh = {}
    /\ owed = {}
    /\ db = [ids |-> Catalogue, votes |-> [id \in Catalogue |-> InitialVotes(id)], ver |-> 0]
    /\ \E to \in Paths, from \in Paths, token \in Tokens :
           last = [ev |-> "navigation",
                   req |-> [to |-> to, from |-> from, token |-> token,
                            redirectedFrom |-> Null],
                   raised |-> Null]
    /\ pre = Store

\* the guard runs for the pending navigation
BeforeEach ==
    /\ last.ev = "navigation"
    /\ last' = [ev |-> "beforeEach", req |-> last.req, raised |-> Null,
                 out |-> beforeEach(last.req.to, last.req.from, last.req.token)]
    /\ UNCHANGED <<storeVars, viewVars, net, db, calls, histVars, pre>>

\* next(path): the router starts the navigation to the path the guard gave
Redirected ==
    /\ last.ev = "beforeEach"
    /\ last.out.redirect
    /\ last' = [ev |-> "navigation",
                 req |-> [to |-> last.out.path, from |-> last.req.from,
                          token |-> last.req.token,
                          redirectedFrom |-> Some(last.req.to)],
                 raised |-> Null]
    /\ UNCHANGED <<storeVars, viewVars, net, db, calls, histVars, pre>>

NextGuard ==
    \/ BeforeEach
    \/ Redirected

SpecGuard == InitGuard /\ [][NextGuard]_vars

----------------------------------------------------------------------------
(* What the claims speak of *)

\* the vote requests for album `id` that are not settled
VoteRequests(id) == {i \in DOMAIN net : net[i].op = "vote" /\ net[i].albumId = id}

\* the last step was the call voteAlbum(id, _) with id already in voteLoading
GatedCall == last.ev = "voteAlbum" /\ last.req.albumId \in pre.voteLoading

\* the last step applied a vote success / a delete success
VoteApplied == last.ev = "voteOk"
DeleteApplied == last.ev = "deleteOk"

\* the last step was a fetchAlbums(filters) that found its key in the cache
CacheHit == last.ev = "fetchAlbums" /\ getCacheKey(last.req.filters) \in DOMAIN pre.cache

\* the last step applied the success of the vote request for album `id`
OwnVoteResponse(id) == last.ev = "voteOk" /\ last.req.albumId = id

\* the vote lists the collection `as` shows for album `id`
ShownVotes(as, id) == {as[j].votes : j \in {k \in DOMAIN as : as[k].id = id}}

\* the net score of a vote list: the votes 'up' less the votes 'down'
NetScore(votes) ==
    Cardinality({k \in DOMAIN votes : votes[k].vote = "up"})
        - Cardinality({k \in DOMAIN votes : votes[k].vote = "down"})

\* name a is not behind name b in ascending order: a is a prefix of b, or
\* has the earlier letter where they first differ
NameNotBehind(a, b) ==
    \/ (Len(a) <= Len(b) /\ SubSeq(b, 1, Len(a)) = a)
    \/ \E i \in 1..Len(a) :
           /\ i <= Len(b)
           /\ SubSeq(a, 1, i - 1) = SubSeq(b, 1, i - 1)
           /\ LetterRank(a[i]) < LetterRank(b[i])

\* the calls that issued the requests of `requests`, in order
Issuers(requests) == [i \in DOMAIN requests |-> requests[i].seq]

\* the last step was a call of fetchAlbums, voteAlbum or deleteAlbum
CallStep == last.ev \in {"fetchAlbums", "voteAlbum", "deleteAlbum"}

\* the last step applied the answer to a request, or its failure
SettleStep == last.ev \in {"fetchOk", "fetchFail", "voteOk", "voteFail", "deleteOk", "deleteFail"}

\* the list requests that are not settled
ListRequests == {i \in DOMAIN net : net[i].op = "list"}

\* the ids of the albums of the collection `as`, in order
IdsOf(as) == [j \in DOMAIN as |-> as[j].id]

----------------------------------------------------------------------------
(* C1..C10 *)

\* C1: an album id is in voteLoading exactly while one vote request issued
\* for it is unsettled, and no id ever has two unsettled vote requests,
\* whatever the interleaving of calls and responses.
C1_VoteGateExact ==
    \A id \in AlbumIds :
        /\ Cardinality(VoteRequests(id)) <= 1
        /\ (id \in voteLoading) <=> (Cardinality(VoteRequests(id)) = 1)

\* a second voteAlbum for an id in flight has been made, next to a list or
\* delete request, and the id still has its one request
C1_Witness ==
    /\ GatedCall
    /\ Cardinality(VoteRequests(last.req.albumId)) = 1
    /\ \E i \in DOMAIN net : net[i].op # "vote"

\* C2: voteAlbum(id, v) with id in voteLoading raises nothing, issues no
\* request and leaves albums, cache, error, loading and voteLoading as they
\* were.
C2_GatedCallNoEffect ==
    GatedCall =>
        /\ last.raised = Null
        /\ net = pre.net
        /\ albums = pre.albums
        /\ cache = pre.cache
        /\ error = pre.error
        /\ loading = pre.loading
        /\ voteLoading = pre.voteLoading
        /\ totalPages = pre.totalPages

\* a gated call made while an error was recorded: the error is still there
C2_Witness ==
    /\ GatedCall
    /\ error # Null
    /\ last.req.albumId \in voteLoading

\* C3: a vote success for an album in the visible collection replaces that
\* album's votes by the returned list and changes nothing else in the
\* collection; votes [up by 1] with response [up by 1, down by 2] tally (1,1).
C3_VoteReplacesVotes ==
    (VoteApplied /\ \E j \in DOMAIN pre.albums : pre.albums[j].id = last.req.albumId) =>
        /\ Len(albums) = Len(pre.albums)
        /\ \A j \in DOMAIN pre.albums :
               /\ albums[j].id = pre.albums[j].id
               /\ albums[j].song_name = pre.albums[j].song_name
               /\ albums[j].votes = IF pre.albums[j].id = last.req.albumId
                                    THEN last.req.resp.body.votes
                                    ELSE pre.albums[j].votes
               /\ (/\ pre.albums[j].id = last.req.albumId
                   /\ pre.albums[j].votes = <<[user_id |-> 1, vote |-> "up"]>>
                   /\ last.req.resp.body.votes = <<[user_id |-> 1, vote |-> "up"],
                                                   [user_id |-> 2, vote |-> "down"]>>)
                  => /\ calculateVoteCounts(albums[j].votes) = [up |-> 1, down |-> 1]
                     /\ calculateVoteCounts(albums[j].votes).up
                          - calculateVoteCounts(albums[j].votes).down = 0

\* the scenario of the claim: the album shown with [up by 1], the answer
\* [up by 1, down by 2]
C3_Witness ==
    /\ VoteApplied
    /\ \E j \in DOMAIN pre.albums :
           /\ pre.albums[j].id = last.req.albumId
           /\ pre.albums[j].votes = <<[user_id |-> 1, vote |-> "up"]>>
           /\ albums[j].votes = <<[user_id |-> 1, vote |-> "up"],
                                  [user_id |-> 2, vote |-> "down"]>>

\* C4: right after a vote or delete success is applied the cache has no
\* entry, also when the album is not in the visible collection.
C4_CacheEmptyAfterMutation ==
    (VoteApplied \/ DeleteApplied) => DOMAIN cache = {}

\* a vote success for an album that is not shown, applied over a cache that
\* held an entry
C4_Witness ==
    /\ VoteApplied
    /\ \A j \in DOMAIN pre.albums : pre.albums[j].id # last.req.albumId
    /\ DOMAIN pre.cache # {}
    /\ DOMAIN cache = {}

\* C5: once a vote or delete has succeeded, no cache entry holds a page the
\* authority produced before that mutation took effect, also when the list
\* request was outstanding when the mutation was issued.
C5_NoStaleCacheEntry ==
    \A k \in DOMAIN cache : cache[k].asOf >= acked

\* C6: a failed vote request records a non-empty message and raises
\* it, changes no album and no cache entry, and takes the id out of
\* voteLoading; a voteAlbum for an id that is not in voteLoading issues a
\* request.
C6_VoteFailure ==
    /\ last.ev = "voteFail" =>
          /\ error # Null
          /\ error[1] # ""
          /\ last.raised = error
          /\ albums = pre.albums
          /\ cache = pre.cache
          /\ last.req.albumId \notin voteLoading
    /\ (last.ev = "voteAlbum" /\ last.req.albumId \notin pre.voteLoading) =>
          /\ last.req.albumId \in voteLoading
          /\ net = Append(pre.net, [op |-> "vote", albumId |-> last.req.albumId,
                                    vote |-> last.req.vote, phase |-> "sent",
                                    resp |-> Null, seq |-> calls])

\* C7: when every vote request is settled in the end, an id in voteLoading
\* is out of it in the end, whatever completes in between.
C7_VoteLoadingReleased ==
    \A id \in AlbumIds : (id \in voteLoading) ~> (id \notin voteLoading)

\* a vote has been settled after another operation failed while it was
\* outstanding, and its id has left voteLoading
C7_Witness ==
    /\ last.ev \in {"voteOk", "voteFail"}
    /\ pre.error # Null
    /\ last.req.albumId \in pre.voteLoading
    /\ last.req.albumId \notin voteLoading

\* C8: a filter fetched with success, with no vote, delete or clearCache
\* success since, is in the cache, and fetchAlbums for it issues no request
\* and shows the items and last_page stored for it.
C8_RepeatedFetchServedFromCache ==
    /\ \A f \in fresh : getCacheKey(f) \in DOMAIN cache
    /\ (last.ev = "fetchAlbums" /\ last.req.filters \in fresh) =>
          /\ net = pre.net
          /\ albums = pre.cache[getCacheKey(last.req.filters)].data
          /\ totalPages = pre.cache[getCacheKey(last.req.filters)].last_page
          /\ cache = pre.cache

\* a fetch served from the cache that brought back another page than the
\* one shown
C8_Witness ==
    /\ last.ev = "fetchAlbums"
    /\ last.req.filters \in fresh
    /\ net = pre.net
    /\ albums # pre.albums

\* C9: a list success stores exactly the returned page under the key of its
\* filter and changes no other entry; a filter that differs in page or in
\* search is in the cache only through a fetch of its own.
C9_PutExact ==
    last.ev = "fetchOk" =>
        LET f == last.req.filters
            k == getCacheKey(f)
        IN  /\ k \in DOMAIN cache
            /\ PageOf(cache[k]) = last.req.resp.body
            /\ \A k2 \in DOMAIN pre.cache \ {k} :
                   k2 \in DOMAIN cache /\ cache[k2] = pre.cache[k2]
            /\ \A g \in Filters \ {f} :
                   /\ (getCacheKey(g) \in DOMAIN cache) <=> (getCacheKey(g) \in DOMAIN pre.cache)
                   /\ getCacheKey(g) \in DOMAIN cache => cache[getCacheKey(g)].asked = g

\* a list success stored next to the entry of a filter with the same page
\* and another search text
C9_Witness ==
    /\ last.ev = "fetchOk"
    /\ getCacheKey(last.req.filters) \notin DOMAIN pre.cache
    /\ \E g \in Filters :
           /\ g.page = last.req.filters.page
           /\ g.search # last.req.filters.search
           /\ getCacheKey(g) \in DOMAIN pre.cache
           /\ getCacheKey(g) \in DOMAIN cache

\* C10: every cache entry is stored under the key of the filter the
\* authority answered with it, in whatever order outstanding list requests
\* resolve.
C10_EntriesUnderOwnKey ==
    \A k \in DOMAIN cache : getCacheKey(cache[k].asked) = k

\* of two outstanding list requests with different filters the one issued
\* later has resolved first and is in the cache
C10_Witness ==
    /\ last.ev = "fetchOk"
    /\ Len(pre.net) = 2
    /\ pre.net[1].op = "list" /\ pre.net[2].op = "list"
    /\ pre.net[1].filters # pre.net[2].filters
    /\ last.req = pre.net[2]
    /\ getCacheKey(last.req.filters) \in DOMAIN cache

----------------------------------------------------------------------------
(* C11..C20 *)

\* C11: when a list request fails (a non-2xx answer, or fetch or the body
\* rejecting), error holds a message, loading is false, albums, totalPages
\* and the cache are as they were before the failure, and fetchAlbums raises
\* nothing to its caller.
C11_FetchFailure ==
    last.ev = "fetchFail" =>
        /\ error # Null
        /\ error[1] # ""
        /\ loading = FALSE
        /\ albums = pre.albums
        /\ totalPages = pre.totalPages
        /\ cache = pre.cache
        /\ last.raised = Null

\* a list request has failed while albums were shown and the cache held an
\* entry
C11_Witness ==
    /\ last.ev = "fetchFail"
    /\ pre.albums # <<>>
    /\ DOMAIN pre.cache # {}
    /\ pre.loading

\* C12: a fetchAlbums served from the cache leaves loading false and error
\* null, also when the step before left an error or while another list
\* request is outstanding.
C12_CacheHitReady ==
    CacheHit => (loading = FALSE /\ error = Null)

\* C13: after a delete success no album of the visible collection has the
\* deleted id and every other album is there as before; and every filter
\* that was cached before the delete has no cache entry until fetchAlbums is
\* called with it again, so that this next call issues a request.
C13_DeleteSuccess ==
    /\ DeleteApplied =>
          /\ \A k \in DOMAIN albums :
                 /\ albums[k].id # last.req.albumId
                 /\ \E j \in DOMAIN pre.albums : pre.albums[j] = albums[k]
          /\ \A j \in DOMAIN pre.albums :
                 pre.albums[j].id # last.req.albumId
                     => \E k \in DOMAIN albums : albums[k] = pre.albums[j]
          /\ Len(albums) = Cardinality({j \in DOMAIN pre.albums :
                                           pre.albums[j].id # last.req.albumId})
          /\ cache = EmptyMap
    /\ \A f \in owed : getCacheKey(f) \notin DOMAIN cache

\* C14: when a delete request fails, albums and the cache are as they were
\* before the failure, error holds a message, and that failure is raised to
\* the caller of deleteAlbum.
C14_DeleteFailure ==
    last.ev = "deleteFail" =>
        /\ albums = pre.albums
        /\ cache = pre.cache
        /\ error # Null
        /\ error[1] # ""
        /\ last.raised # Null
        /\ last.raised = error

\* the delete of a shown album has failed over a cache that holds an entry
C14_Witness ==
    /\ last.ev = "deleteFail"
    /\ \E j \in DOMAIN albums : albums[j].id = last.req.albumId
    /\ DOMAIN cache # {}
    /\ last.raised = Some("Failed to delete album")

\* C15 as stated: while a vote request for album id is outstanding, no step
\* other than the success of that request changes the votes the visible
\* collection shows for album id: no list response, no cache hit, no delete
\* response, no vote response for another id.
C15_VotesWrittenByOwnVoteOnly ==
    \A id \in AlbumIds :
        (/\ id \in pre.voteLoading
         /\ ~OwnVoteResponse(id)
         /\ ShownVotes(pre.albums, id) # {}
         /\ ShownVotes(albums, id) # {})
            => ShownVotes(albums, id) = ShownVotes(pre.albums, id)

\* C15 amended: while a vote request for album id is outstanding, no vote
\* response for another id, no delete response for another id, no failed
\* response and no call that issues a request or is gated changes the votes
\* shown for album id; a list response or a cache hit replaces the whole
\* collection, and a delete response for id removes the album.
C15_VotesKeptByOtherMutations ==
    \A id \in AlbumIds :
        (/\ id \in pre.voteLoading
         /\ ~OwnVoteResponse(id)
         /\ last.ev # "fetchOk"
         /\ ~CacheHit
         /\ ~(DeleteApplied /\ last.req.albumId = id))
            => SelectSeq(albums, LAMBDA a : a.id = id)
                   = SelectSeq(pre.albums, LAMBDA a : a.id = id)

\* the vote for another shown album has succeeded and changed that album's
\* votes while the vote for album id, shown as well, is outstanding
C15_Witness ==
    \E id \in AlbumIds :
        /\ id \in pre.voteLoading
        /\ id \in voteLoading
        /\ last.ev = "voteOk"
        /\ last.req.albumId # id
        /\ ShownVotes(albums, id) # {}
        /\ ShownVotes(albums, last.req.albumId) # ShownVotes(pre.albums, last.req.albumId)

\* C16: for every collection, sortedAlbums (the store's and the view's)
\* returns a permutation of the collection, with net score up minus down
\* non-increasing and albums of equal net score in ascending song_name order.
C16_RankingSorted ==
    last.ev \in {"sortedAlbums", "viewSortedAlbums"} =>
        /\ Len(last.out) = Len(albums)
        /\ \A j \in DOMAIN albums :
               Cardinality({k \in DOMAIN last.out : last.out[k] = albums[j]})
                   = Cardinality({k \in DOMAIN albums : albums[k] = albums[j]})
        /\ \A j \in 1..(Len(last.out) - 1) :
               /\ NetScore(last.out[j].votes) >= NetScore(last.out[j + 1].votes)
               /\ NetScore(last.out[j].votes) = NetScore(last.out[j + 1].votes)
                      => NameNotBehind(last.out[j].song_name, last.out[j + 1].song_name)

\* a collection of three albums was ranked into another order, two of them
\* with equal net score from different vote lists and different names
C16_Witness ==
    /\ last.ev = "sortedAlbums"
    /\ Len(albums) = 3
    /\ last.out # albums
    /\ \E j \in 1..2 :
           /\ NetScore(last.out[j].votes) = NetScore(last.out[j + 1].votes)
           /\ last.out[j].votes # last.out[j + 1].votes
           /\ last.out[j].song_name # last.out[j + 1].song_name
           /\ last.out[j].id > last.out[j + 1].id

\* C17: for every vote list, calculateVoteCounts returns up = the number of
\* votes 'up' and down = the number of votes 'down', so up + down is the
\* length of the list; the net score the store's comparator and the view's
\* getTotalVotes use is up minus down of that result.
C17_TallyExact ==
    last.ev = "calculateVoteCounts" =>
        LET votes == last.req.votes IN
        /\ last.out.up = Cardinality({k \in DOMAIN votes : votes[k].vote = "up"})
        /\ last.out.down = Cardinality({k \in DOMAIN votes : votes[k].vote = "down"})
        /\ last.out.up + last.out.down = Len(votes)
        /\ last.aTotal = last.out.up - last.out.down
        /\ last.total = last.out.up - last.out.down

\* a list with a vote up and a vote down was tallied
C17_Witness ==
    /\ last.ev = "calculateVoteCounts"
    /\ last.out = [up |-> 1, down |-> 1]
    /\ last.total = 0

\* C18: updateSearch(q) sets searchQuery to q and currentPage to 1, whatever
\* the page was, issues no request and leaves albums, totalPages, the cache,
\* loading, error and voteLoading as they were.
C18_UpdateSearchFrame ==
    last.ev = "updateSearch" =>
        /\ searchQuery = last.req.query
        /\ currentPage = 1
        /\ net = pre.net
        /\ albums = pre.albums
        /\ totalPages = pre.totalPages
        /\ cache = pre.cache
        /\ loading = pre.loading
        /\ error = pre.error
        /\ voteLoading = pre.voteLoading

\* updateSearch was called with a new text on page 2, over shown albums, a
\* cache entry and an outstanding request
C18_Witness ==
    /\ last.ev = "updateSearch"
    /\ pre.currentPage = 2
    /\ pre.searchQuery # searchQuery
    /\ albums # <<>>
    /\ DOMAIN cache # {}
    /\ net # <<>>
    /\ loading

\* C19: each call of fetchAlbums, voteAlbum or deleteAlbum issues at most one
\* request; a cache hit and a gated vote issue none; when a request is
\* settled, by an answer or a failure, it is gone and nothing is sent in its
\* place; no other step sends anything.
C19_AtMostOneAttempt ==
    /\ \A i \in DOMAIN net : net[i].seq <= calls
    /\ \A i, j \in DOMAIN net : i # j => net[i].seq # net[j].seq
    /\ CallStep =>
          \/ net = pre.net
          \/ /\ Len(net) = Len(pre.net) + 1
             /\ SubSeq(net, 1, Len(pre.net)) = pre.net
             /\ net[Len(net)].seq = calls
             /\ net[Len(net)].phase = "sent"
    /\ (CacheHit \/ GatedCall) => net = pre.net
    /\ SettleStep =>
          /\ Len(net) = Len(pre.net) - 1
          /\ \E i \in DOMAIN pre.net : pre.net[i] = last.req /\ net = Remove(pre.net, i)
          /\ \A i \in DOMAIN net : net[i].seq # last.req.seq
    /\ (~CallStep /\ ~SettleStep) => Issuers(net) = Issuers(pre.net)

\* a request has failed with a non-2xx answer while another was outstanding:
\* the other is all that is left
C19_Witness ==
    /\ last.ev \in {"fetchFail", "voteFail", "deleteFail"}
    /\ last.req.phase = "sent"
    /\ Len(pre.net) = 2
    /\ Len(net) = 1
    /\ calls = MaxCalls

\* C20: when list requests with different filters are outstanding at once
\* and succeed, albums and totalPages are after each success those of the
\* response applied last, in whatever order the calls were issued; the
\* responses applied with no cache.clear() since are all in the cache, each
\* under the key of its own filter, and the key of a request still
\* outstanding is not touched.
C20_LastResolvedWins ==
    last.ev = "fetchOk" =>
        /\ albums = last.req.resp.body.data
        /\ totalPages = last.req.resp.body.last_page
        /\ last.req.filters \in fresh
        /\ PageOf(cache[getCacheKey(last.req.filters)]) = last.req.resp.body
        /\ \A g \in fresh :
               /\ getCacheKey(g) \in DOMAIN cache
               /\ cache[getCacheKey(g)].asked = g
        /\ \A i \in DOMAIN net :
               (net[i].op = "list" /\ net[i].filters # last.req.filters)
                   => ((getCacheKey(net[i].filters) \in DOMAIN cache)
                           <=> (getCacheKey(net[i].filters) \in DOMAIN pre.cache))

\* two calls were made, both fetchAlbums with different filters; the request
\* of the second was applied while that of the first was outstanding, and
\* now the first has been applied: it is what albums shows, and both pages
\* are in the cache
C20_Witness ==
    /\ last.ev = "fetchOk"
    /\ calls = 2
    /\ last.req.seq = 1
    /\ Cardinality(DOMAIN cache) = 2
    /\ Cardinality(fresh) = 2
    /\ albums = cache[getCacheKey(last.req.filters)].data
    /\ \E g \in fresh : g # last.req.filters /\ cache[getCacheKey(g)].data # albums

----------------------------------------------------------------------------
(* C21..C26 *)

\* C21: while a list request issued by fetchAlbums is outstanding, loading
\* is true, also when two fetchAlbums calls overlap and one of them is
\* settled before the other.
C21_LoadingWhileOutstanding ==
    ListRequests # {} => loading = TRUE

\* C22: every deleteAlbum(id) call issues a request of its own,
\* also while a delete request for the same id is outstanding; a delete
\* success for an id that is not in the visible collection leaves the
\* collection as it was and empties the cache.
C22_DeleteUngated ==
    /\ last.ev = "deleteAlbum" =>
          net = Append(pre.net, [op |-> "delete", albumId |-> last.req.albumId,
                                 phase |-> "sent", resp |-> Null, seq |-> calls])
    /\ (DeleteApplied /\ \A j \in DOMAIN pre.albums : pre.albums[j].id # last.req.albumId) =>
          /\ albums = pre.albums
          /\ cache = EmptyMap

\* C23: for any two filters with integer page >= 1 and any search texts,
\* also texts with '-' or digits and the empty text, the cache keys are
\* equal exactly when the pages are equal and the search texts are equal
\* character by character.
C23_CacheKeyInjective ==
    last.ev = "getCacheKey" =>
        ((last.out[1] = last.out[2])
            <=> (/\ last.req[1].page = last.req[2].page
                 /\ last.req[1].search = last.req[2].search))

\* the keys of page 1 with a text that begins with a digit and has a '-',
\* and of page 11 with a text that begins with '-': of equal length, not equal
C23_Witness ==
    /\ last.ev = "getCacheKey"
    /\ last.req[1].page = 1
    /\ last.req[1].search = <<"1", "-">>
    /\ last.req[2].page = 11
    /\ last.req[2].search = <<"-">>
    /\ Len(last.out[1]) = Len(last.out[2])
    /\ last.out[1] # last.out[2]

\* C24: a vote success leaves the ids of the visible collection as they
\* were; when the voted id is not in the collection (the album was deleted,
\* or another page was loaded, while the vote was outstanding) the
\* collection is unchanged, so a late vote response never brings a deleted
\* album back.
C24_VoteKeepsIds ==
    VoteApplied =>
        /\ IdsOf(albums) = IdsOf(pre.albums)
        /\ (\A j \in DOMAIN pre.albums : pre.albums[j].id # last.req.albumId)
               => albums = pre.albums

\* the vote for an album has succeeded after the album was deleted at the
\* authority and taken out of the shown collection, which holds other albums
C24_Witness ==
    /\ VoteApplied
    /\ last.req.albumId \notin db.ids
    /\ pre.albums # <<>>
    /\ \A j \in DOMAIN albums : albums[j].id # last.req.albumId

\* C25: under the view's handlers (Previous, disabled on page 1; Next,
\* disabled on the last page; a search change through updateSearch) and in
\* whatever order list responses arrive, currentPage is at least 1 in every
\* state, and every filter handed to fetchAlbums has a page of at least 1.
C25_PageAtLeastOne ==
    /\ currentPage >= 1
    /\ last.ev = "fetchAlbums" => last.req.filters.page >= 1

\* a step back from page 2 to page 1 with the same search text, made while
\* the list request for page 2 was outstanding
C25_Witness ==
    /\ last.ev = "fetchAlbums"
    /\ pre.currentPage = 2
    /\ currentPage = 1
    /\ searchQuery = pre.searchQuery
    /\ last.req.filters = [page |-> 1, search |-> searchQuery]
    /\ \E i \in DOMAIN pre.net : pre.net[i].op = "list" /\ pre.net[i].filters.page = 2

\* C26: the guard lets no navigation to a route that requires
\* authentication ('/', '/about', '/albums') proceed while the session has
\* no token (null or the empty string): it redirects to '/login'; it
\* redirects a navigation to '/login' or '/register' to '/' while a token
\* is held; every other navigation proceeds.
C26_GuardDecision ==
    last.ev = "beforeEach" =>
        LET to      == last.req.to
            noToken == last.req.token \in {Null, Some("")}
        IN  /\ (to \in {"/", "/about", "/albums"} /\ noToken)
                   => last.out = [redirect |-> TRUE, path |-> "/login"]
            /\ (to \in {"/login", "/register"} /\ ~noToken)
                   => last.out = [redirect |-> TRUE, path |-> "/"]
            /\ (~(to \in {"/", "/about", "/albums"} /\ noToken)
                  /\ ~(to \in {"/login", "/register"} /\ ~noToken))
                   => last.out = [redirect |-> FALSE]

\* a navigation to '/albums' without a token was redirected to '/login',
\* and the guard has let that navigation proceed
C26_Witness ==
    /\ last.ev = "beforeEach"
    /\ last.req.to = "/login"
    /\ last.req.redirectedFrom = Some("/albums")
    /\ last.req.token = Null
    /\ last.out = [redirect |-> FALSE]

====
